---- MODULE Spec2Model ----
(***************************************************************************)
(* err-envelope: the structured error value Error, its With copy           *)
(* operations, the classifier From, the trace-id lookup and the response   *)
(* emitter Write, modelled as operations over a heap of Error objects.     *)
(***************************************************************************)
EXTENDS Integers, Sequences, FiniteSets, TLC

VARIABLES heap, made, op, resp, arg, call, ctxs, mw, phase, pc, loc, presp,
          payload

\* heap: the Error objects, by address; made: each object as it was when it
\* was created; op: the last call made and what it returned; resp: the
\* response the last Write produced; arg, phase: the input and progress of
\* a classification; call: the constructor call to make; ctxs: the context
\* values, by address; mw: what the trace middleware did for the last
\* request; pc, loc, presp: position, request and response of each
\* concurrent request; payload: the contents of each details map, by the
\* reference an Error's Details holds
vars == <<heap, made, op, resp, arg, call, ctxs, mw, phase, pc, loc, presp,
          payload>>

(* ------------------------------ bounds --------------------------------- *)
\* largest number of Error objects on the heap
MaxObj == 3
\* deepest nesting of wrap/join around a leaf failure
MaxDepth == 1
\* number of concurrently served requests
NProc == 2

(* --------------------------- program constants ------------------------- *)
StatusInternalServerError == 500
StatusNoContent == 204
StatusGatewayTimeout == 504
StatusClientClosed == 499
\* one second, in the model's duration unit (milliseconds)
Second == 1000

(* ------------------------------ failures ------------------------------- *)
\* A Go error value.  kind: "nil" (absent), "ptr" (an Error pointer; addr 0 is a nil
\* pointer in a non-nil interface), "deadline" (context.DeadlineExceeded),
\* "canceled" (context.Canceled), "opaque" (errors.New), "custom" (a user
\* type; hasTmo/hasTmp say which of Timeout()/Temporary() it declares, tmo
\* what Timeout() returns), "wrap" (fmt.Errorf %w), "join" (errors.Join).
\* subs are the errors its Unwrap yields.
Fail(k, a, ht, t, hp, s) ==
    [kind |-> k, addr |-> a, hasTmo |-> ht, tmo |-> t, hasTmp |-> hp, subs |-> s]
NilErr == Fail("nil", 0, FALSE, FALSE, FALSE, <<>>)
Ptr(a) == Fail("ptr", a, FALSE, FALSE, FALSE, <<>>)
DeadlineExceeded == Fail("deadline", 0, TRUE, TRUE, TRUE, <<>>)
Canceled == Fail("canceled", 0, FALSE, FALSE, FALSE, <<>>)
Opaque == Fail("opaque", 0, FALSE, FALSE, FALSE, <<>>)
Custom(ht, t, hp, s) == Fail("custom", 0, ht, t, hp, s)
WrapErr(f) == Fail("wrap", 0, FALSE, FALSE, FALSE, <<f>>)
JoinErr(f, g) == Fail("join", 0, FALSE, FALSE, FALSE, <<f, g>>)

(* ------------------------------ Error ---------------------------------- *)
MkErr(c, m, d, t, r, s, cause, ra) ==
    [Code |-> c, Message |-> m, Details |-> d, TraceID |-> t, Retryable |-> r,
     Status |-> s, Cause |-> cause, RetryAfter |-> ra]

defaultMessage(code) ==
    CASE code = "BAD_REQUEST" -> "Bad request"
      [] code = "VALIDATION_FAILED" -> "Invalid input"
      [] code = "UNAUTHORIZED" -> "Unauthorized"
      [] code = "FORBIDDEN" -> "Forbidden"
      [] code = "NOT_FOUND" -> "Not found"
      [] code = "GONE" -> "Resource no longer exists"
      [] code = "CONFLICT" -> "Conflict"
      [] code = "PAYLOAD_TOO_LARGE" -> "Payload too large"
      [] code = "UNPROCESSABLE_ENTITY" -> "Unprocessable entity"
      [] code = "RATE_LIMITED" -> "Rate limited"
      [] code \in {"TIMEOUT", "DOWNSTREAM_TIMEOUT"} -> "Request timed out"
      [] code = "UNAVAILABLE" -> "Service unavailable"
      [] code = "CANCELED" -> "Request canceled"
      [] code = "DOWNSTREAM_ERROR" -> "Downstream service error"
      [] OTHER -> "Internal error"

isRetryableDefault_ReadmeTable(code) ==
    code \in {"TIMEOUT", "DOWNSTREAM_TIMEOUT", "UNAVAILABLE", "RATE_LIMITED",
              "REQUEST_TIMEOUT", "DOWNSTREAM_ERROR"}

isRetryableDefault(code) ==
    code \in {"TIMEOUT", "DOWNSTREAM_TIMEOUT", "UNAVAILABLE", "RATE_LIMITED"}

New_KeepZeroStatus(code, status, msg) ==
    MkErr(code, IF msg = "" THEN defaultMessage(code) ELSE msg, 0, "",
          isRetryableDefault(code), status, NilErr, 0)

New(code, status, msg) ==
    MkErr(code,
          IF msg = "" THEN defaultMessage(code) ELSE msg,
          0, "", isRetryableDefault(code),
          IF status = 0 THEN StatusInternalServerError ELSE status,
          NilErr, 0)

Wrap_CauseAsMessage(code, status, msg, cause) ==
    [New(code, status, IF msg = "" THEN cause.kind ELSE msg) EXCEPT !.Cause = cause]

Wrap(code, status, msg, cause) == [New(code, status, msg) EXCEPT !.Cause = cause]

\* the copy each With* method builds (clone := *e; clone.X = x)
CloneDetails(e, d) == [e EXCEPT !.Details = d]
CloneTraceID(e, id) == [e EXCEPT !.TraceID = id]
CloneRetryable(e, v) == [e EXCEPT !.Retryable = v]
CloneStatus(e, s) == IF s # 0 THEN [e EXCEPT !.Status = s] ELSE e
CloneRetryAfter(e, d) == [e EXCEPT !.RetryAfter = d]

\* the details payloads the constructors attach: the field errors of a
\* validation, and the map Downstream builds (empty without a service name)
DetailsFields == 3
DetailsEmptyMap == 4
DetailsService == 5
serviceDetails(service) == IF service = "" THEN DetailsEmptyMap ELSE DetailsService

\* the convenience constructors, one per code
Internal(msg) == CloneRetryable(New("INTERNAL", StatusInternalServerError, msg), FALSE)
BadRequest(msg) == CloneRetryable(New("BAD_REQUEST", 400, msg), FALSE)
Validation(fields) ==
    CloneRetryable(CloneDetails(New("VALIDATION_FAILED", 400, ""), fields), FALSE)
Unauthorized(msg) == CloneRetryable(New("UNAUTHORIZED", 401, msg), FALSE)
Forbidden(msg) == CloneRetryable(New("FORBIDDEN", 403, msg), FALSE)
NotFound(msg) == CloneRetryable(New("NOT_FOUND", 404, msg), FALSE)
Conflict(msg) == CloneRetryable(New("CONFLICT", 409, msg), FALSE)
MethodNotAllowed(msg) == CloneRetryable(New("METHOD_NOT_ALLOWED", 405, msg), FALSE)
RequestTimeout_Default(msg) == New("REQUEST_TIMEOUT", 408, msg)
RequestTimeout(msg) == CloneRetryable(New("REQUEST_TIMEOUT", 408, msg), TRUE)
Gone(msg) == CloneRetryable(New("GONE", 410, msg), FALSE)
PayloadTooLarge(msg) == CloneRetryable(New("PAYLOAD_TOO_LARGE", 413, msg), FALSE)
UnprocessableEntity(msg) == CloneRetryable(New("UNPROCESSABLE_ENTITY", 422, msg), FALSE)
RateLimited(msg) == CloneRetryable(New("RATE_LIMITED", 429, msg), TRUE)
Timeout(msg) == CloneRetryable(New("TIMEOUT", StatusGatewayTimeout, msg), TRUE)
Unavailable(msg) == CloneRetryable(New("UNAVAILABLE", 503, msg), TRUE)
Downstream(service, cause) ==
    CloneRetryable(CloneDetails(Wrap("DOWNSTREAM_ERROR", 502, "", cause),
                                serviceDetails(service)), TRUE)
DownstreamTimeout(service, cause) ==
    CloneRetryable(CloneDetails(Wrap("DOWNSTREAM_TIMEOUT", StatusGatewayTimeout, "", cause),
                                serviceDetails(service)), TRUE)


(* ------------------------- errors.As / errors.Is ----------------------- *)
\* what Unwrap yields for one error value, nil results skipped
Children(h, f) ==
    IF f.kind = "ptr"
      THEN (IF f.addr # 0 /\ h[f.addr].Cause.kind # "nil"
              THEN <<h[f.addr].Cause>> ELSE <<>>)
      ELSE SelectSeq(f.subs, LAMBDA g : g.kind # "nil")

RECURSIVE Flatten(_)
Flatten(ss) == IF ss = <<>> THEN <<>> ELSE Head(ss) \o Flatten(Tail(ss))

\* the order in which errors.As and errors.Is visit the tree of an error:
\* the error itself, then depth-first what it unwraps to
RECURSIVE Preorder(_, _)
Preorder(h, f) ==
    LET cs == Children(h, f)
    IN  <<f>> \o Flatten([i \in 1..Len(cs) |-> Preorder(h, cs[i])])

\* the first of the positions hits, 0 when there is none
FirstIndex(hits) ==
    IF hits = {} THEN 0 ELSE CHOOSE i \in hits : \A j \in hits : i <= j

\* errors.As(err, &e) with e of type *Error
asError(h, f) ==
    LET po == Preorder(h, f)
        i == FirstIndex({j \in 1..Len(po) : po[j].kind = "ptr"})
    IN  [ok |-> i # 0, addr |-> IF i = 0 THEN 0 ELSE po[i].addr]

\* Is(err, code): the code of the Error errors.As finds, compared with code
\* ("panic": As found a nil Error pointer and e.Code is read through it)
Is(h, f, code) ==
    IF f.kind = "nil" \/ ~asError(h, f).ok THEN "false"
    ELSE IF asError(h, f).addr = 0 THEN "panic"
    ELSE IF h[asError(h, f).addr].Code = code THEN "true"
    ELSE "false"

\* errors.Is(err, target) for the two context sentinels
isTarget(h, f, k) == \E i \in 1..Len(Preorder(h, f)) : Preorder(h, f)[i].kind = k

\* errors.As(err, &ne) with ne of type net.Error, an interface that asks for
\* both Timeout() and Temporary(); tmo is what ne.Timeout() then returns
asNetError_TimeoutOnly(h, f) ==
    LET po == Preorder(h, f)
        i == FirstIndex({j \in 1..Len(po) : po[j].hasTmo})
    IN  [ok |-> i # 0, tmo |-> IF i = 0 THEN FALSE ELSE po[i].tmo]

asNetError(h, f) ==
    LET po == Preorder(h, f)
        i == FirstIndex({j \in 1..Len(po) : po[j].hasTmo /\ po[j].hasTmp})
    IN  [ok |-> i # 0, tmo |-> IF i = 0 THEN FALSE ELSE po[i].tmo]

(* -------------------------------- From --------------------------------- *)
Out(k, a) == [kind |-> k, addr |-> a]

\* which branch of From a non-nil failure takes
classify_CanceledFirst(h, f) ==
    IF asError(h, f).ok THEN "passthrough"
    ELSE IF isTarget(h, f, "canceled") THEN "canceled"
    ELSE IF isTarget(h, f, "deadline") THEN "deadline"
    ELSE IF asNetError(h, f).ok /\ asNetError(h, f).tmo THEN "net"
    ELSE "internal"

classify(h, f) ==
    IF asError(h, f).ok THEN "passthrough"
    ELSE IF isTarget(h, f, "deadline") THEN "deadline"
    ELSE IF isTarget(h, f, "canceled") THEN "canceled"
    ELSE IF asNetError(h, f).ok /\ asNetError(h, f).tmo THEN "net"
    ELSE "internal"

\* the passthrough branch: the two fields From fills in on the instance
fillDefaults_DropTrace(e) ==
    [e EXCEPT !.Status = IF @ = 0 THEN StatusInternalServerError ELSE @,
              !.Message = IF @ = "" THEN defaultMessage(e.Code) ELSE @,
              !.TraceID = ""]

fillDefaults(e) ==
    [e EXCEPT !.Status = IF @ = 0 THEN StatusInternalServerError ELSE @,
              !.Message = IF @ = "" THEN defaultMessage(e.Code) ELSE @]

fromDeadline_NotRetryable == CloneRetryable(New("TIMEOUT", StatusGatewayTimeout, ""), FALSE)

fromDeadline == Timeout("")

fromCanceled_Retryable == CloneRetryable(New("CANCELED", StatusClientClosed, ""), TRUE)

fromCanceled == CloneRetryable(New("CANCELED", StatusClientClosed, ""), FALSE)

fromNetTimeout_ViaDownstream == DownstreamTimeout("", NilErr)

fromNetTimeout == Timeout("")

fromInternal_NoCause(f) ==
    CloneRetryable(New("INTERNAL", StatusInternalServerError, ""), FALSE)

fromInternal(f) ==
    CloneRetryable(Wrap("INTERNAL", StatusInternalServerError, "", f), FALSE)

\* From(err) run on heap h: the heap it leaves and what it returns
\* ("nil", "ptr" with the address, or "panic" for a nil-pointer dereference)
From_ReturnsCopy(h, f) ==
    IF f.kind = "nil" THEN [heap |-> h, ret |-> Out("nil", 0)]
    ELSE LET rule == classify(h, f)
             fresh(rec) == [heap |-> Append(h, rec), ret |-> Out("ptr", Len(h) + 1)]
         IN  CASE rule = "passthrough" ->
                    LET a == asError(h, f).addr
                    IN  IF a = 0 THEN [heap |-> h, ret |-> Out("panic", 0)]
                        ELSE fresh(fillDefaults(h[a]))
               [] rule = "deadline" -> fresh(fromDeadline)
               [] rule = "canceled" -> fresh(fromCanceled)
               [] rule = "net" -> fresh(fromNetTimeout)
               [] OTHER -> fresh(fromInternal(f))

From(h, f) ==
    IF f.kind = "nil" THEN [heap |-> h, ret |-> Out("nil", 0)]
    ELSE LET rule == classify(h, f)
             fresh(rec) == [heap |-> Append(h, rec), ret |-> Out("ptr", Len(h) + 1)]
         IN  CASE rule = "passthrough" ->
                    LET a == asError(h, f).addr
                    IN  IF a = 0 THEN [heap |-> h, ret |-> Out("panic", 0)]
                        ELSE [heap |-> [h EXCEPT ![a] = fillDefaults(h[a])],
                              ret |-> Out("ptr", a)]
               [] rule = "deadline" -> fresh(fromDeadline)
               [] rule = "canceled" -> fresh(fromCanceled)
               [] rule = "net" -> fresh(fromNetTimeout)
               [] OTHER -> fresh(fromInternal(f))


(* ------------------------- requests and responses ---------------------- *)
\* an inbound request: absent (nil), else its X-Request-Id header and the
\* trace value of its context ("" when there is none)
Request(n, hd, cx) == [nil |-> n, hdr |-> hd, ctx |-> cx]
NilRequest == Request(TRUE, "", "")

TraceIDFromRequest_ContextFirst(r) ==
    IF r.nil THEN ""
    ELSE IF r.ctx # "" THEN r.ctx
    ELSE r.hdr

TraceIDFromRequest(r) ==
    IF r.nil THEN ""
    ELSE IF r.hdr # "" THEN r.hdr
    ELSE r.ctx

\* time.Duration.String, for durations in milliseconds
Digits3(n) ==
    IF n % 100 = 0 THEN ToString(n \div 100)
    ELSE IF n % 10 = 0 THEN (IF n < 100 THEN "0" ELSE "") \o ToString(n \div 10)
    ELSE (IF n < 10 THEN "00" ELSE IF n < 100 THEN "0" ELSE "") \o ToString(n)

DurationString(d) ==
    IF d = 0 THEN "0s"
    ELSE LET u == IF d < 0 THEN 0 - d ELSE d
             sign == IF d < 0 THEN "-" ELSE ""
             hh == u \div (3600 * Second)
             mm == (u % (3600 * Second)) \div (60 * Second)
             ms == u % (60 * Second)
             secs == ToString(ms \div Second) \o
                     (IF ms % Second = 0 THEN "" ELSE "." \o Digits3(ms % Second)) \o "s"
         IN  IF u < Second THEN sign \o ToString(u) \o "ms"
             ELSE sign \o (IF hh > 0 THEN ToString(hh) \o "h" \o ToString(mm) \o "m"
                           ELSE IF mm > 0 THEN ToString(mm) \o "m" ELSE "") \o secs

\* the JSON object MarshalJSON produces; a field omitted by omitempty has
\* its zero value here.  ok is FALSE when json.Marshal fails on the details.
DetailsUnencodable == 2

MarshalJSON_AlwaysRetryAfter(e) ==
    [ok |-> e.Details # DetailsUnencodable,
     code |-> e.Code, message |-> e.Message, details |-> e.Details,
     trace_id |-> e.TraceID, retryable |-> e.Retryable,
     retry_after |-> DurationString(e.RetryAfter)]

MarshalJSON(e) ==
    [ok |-> e.Details # DetailsUnencodable,
     code |-> e.Code, message |-> e.Message, details |-> e.Details,
     trace_id |-> e.TraceID, retryable |-> e.Retryable,
     retry_after |-> IF e.RetryAfter > 0 THEN DurationString(e.RetryAfter) ELSE ""]

NoBody == [ok |-> FALSE, code |-> "", message |-> "", details |-> 0,
           trace_id |-> "", retryable |-> FALSE, retry_after |-> ""]

\* what a ResponseWriter has received: the committed status (0: none), the
\* three headers Write may set ("": not set), the body, and the order of
\* the calls made on it
Response(st, tr, ra, ct, b, l) ==
    [status |-> st, trace |-> tr, retry |-> ra, ctype |-> ct, body |-> b, log |-> l]
NoResponse == Response(0, "", "", "", NoBody, <<>>)

\* the Retry-After header value of a positive duration
retryAfterSeconds(d) ==
    LET seconds == d \div Second
    IN  IF seconds < 1 THEN 1 ELSE seconds

\* the value of e.TraceID after the "if e.TraceID == "" { ... }" statement
resolveTraceID(e, r) == IF e.TraceID = "" THEN TraceIDFromRequest(r) ELSE e.TraceID

\* the Retry-After header Write sets for e ("": none)
retryAfterHeader(e) ==
    IF e.RetryAfter > 0 THEN ToString(retryAfterSeconds(e.RetryAfter)) ELSE ""

\* status := e.Status; if status == 0 { status = 500 }
resolveStatus(e) == IF e.Status = 0 THEN StatusInternalServerError ELSE e.Status

\* the headers Write sets for e, in the order it sets them
headerLog(e) ==
    (IF e.TraceID # "" THEN <<"X-Request-Id">> ELSE <<>>) \o
    (IF e.RetryAfter > 0 THEN <<"Retry-After">> ELSE <<>>) \o <<"Content-Type">>

\* net/http refuses a status outside 100..999: WriteHeader panics
validStatus(st) == st >= 100 /\ st <= 999

emit_StatusFirst(e) ==
    IF ~validStatus(resolveStatus(e))
      THEN Response(0, "", "", "", NoBody, <<>>)
      ELSE Response(resolveStatus(e), e.TraceID, retryAfterHeader(e), "application/json",
                    IF MarshalJSON(e).ok THEN MarshalJSON(e) ELSE NoBody,
                    <<"status">> \o headerLog(e) \o
                      (IF MarshalJSON(e).ok THEN <<"body">> ELSE <<>>))

\* what Write sends for e once e.TraceID is resolved: headers, then the
\* status, then the encoded body (nothing when encoding fails)
emit(e) ==
    IF ~validStatus(resolveStatus(e))
      THEN Response(0, e.TraceID, retryAfterHeader(e), "application/json", NoBody,
                    headerLog(e))
      ELSE Response(resolveStatus(e), e.TraceID, retryAfterHeader(e), "application/json",
                    IF MarshalJSON(e).ok THEN MarshalJSON(e) ELSE NoBody,
                    headerLog(e) \o <<"status">> \o
                      (IF MarshalJSON(e).ok THEN <<"body">> ELSE <<>>))

\* Write past the nil check, with e the object at address a of heap h
writeError(h, r, a) ==
    [heap |-> [h EXCEPT ![a].TraceID = resolveTraceID(h[a], r)],
     resp |-> emit([h[a] EXCEPT !.TraceID = resolveTraceID(h[a], r)]),
     ret |-> IF validStatus(resolveStatus(h[a])) THEN Out("ptr", a) ELSE Out("panic", a)]

writeNoContent_EchoTrace(r) ==
    Response(StatusNoContent, TraceIDFromRequest(r), "", "", NoBody,
             (IF TraceIDFromRequest(r) # "" THEN <<"X-Request-Id">> ELSE <<>>) \o <<"status">>)

\* the nil branch of Write, for request r: w.WriteHeader(204) and return
writeNoContent(r) == Response(StatusNoContent, "", "", "", NoBody, <<"status">>)

\* Write(w, r, err) run on heap h: the heap it leaves (the instance From
\* returned included), the response, and how it ended
Write(h, r, f) ==
    CASE From(h, f).ret.kind = "panic" ->
           [heap |-> From(h, f).heap, resp |-> NoResponse, ret |-> Out("panic", 0)]
      [] From(h, f).ret.kind = "nil" ->
           [heap |-> From(h, f).heap, resp |-> writeNoContent(r), ret |-> Out("nil", 0)]
      [] OTHER -> writeError(From(h, f).heap, r, From(h, f).ret.addr)

(* ------------------------- contexts and tracing ------------------------ *)
\* a context value: its parent (0: none) and the trace id stored in it under
\* traceKey ("": none stored in this one)
Context(parent, val) == [parent |-> parent, val |-> val]

\* the contexts requests arrive with: the server's base context, and one
\* that already carries a trace value
BaseContexts == <<Context(0, ""), Context(1, "c1")>>

\* ctx.Value(traceKey) for the context at address i of cs
RECURSIVE ctxValue(_, _)
ctxValue(cs, i) ==
    IF i = 0 THEN ""
    ELSE IF cs[i].val # "" THEN cs[i].val
    ELSE ctxValue(cs, cs[i].parent)

\* an inbound request: its X-Request-Id header and the address of its context
TracedRequest(hd, cx) == [hdr |-> hd, ctx |-> cx]

\* the request as TraceIDFromRequest reads it
asRequest(cs, r) == Request(FALSE, r.hdr, ctxValue(cs, r.ctx))

ContextWithTraceID_InPlace(cs, parent, id) ==
    [ctxs |-> [cs EXCEPT ![parent].val = id], ctx |-> parent]

\* WithTraceID(ctx, id): context.WithValue makes a child of ctx; the
\* contexts after the call and the address of the new one
ContextWithTraceID(cs, parent, id) ==
    [ctxs |-> Append(cs, Context(parent, id)), ctx |-> Len(cs) + 1]

\* hex.EncodeToString: two lowercase digits per byte
HexDigits == <<"0", "1", "2", "3", "4", "5", "6", "7", "8", "9", "a", "b", "c", "d", "e", "f">>
RECURSIVE encodeDigits(_)
encodeDigits(b) ==
    IF b = <<>> THEN <<>>
    ELSE <<HexDigits[(Head(b) \div 16) + 1], HexDigits[(Head(b) % 16) + 1]>>
           \o encodeDigits(Tail(b))
RECURSIVE joinDigits(_)
joinDigits(ds) == IF ds = <<>> THEN "" ELSE Head(ds) \o joinDigits(Tail(ds))
EncodeToString(b) == joinDigits(encodeDigits(b))

\* what rand.Read may leave in the 16 bytes: zeros (also what they hold
\* when it fails), a mix
ZeroBytes == [i \in 1..16 |-> 0]
RandomBytes == {ZeroBytes, [i \in 1..16 |-> (i * 37 + 11) % 256]}

\* hex.EncodeToString(b[:]) of each of them
encoded == [b \in RandomBytes |-> EncodeToString(b)]

newTraceID_EightBytes(b) == EncodeToString(SubSeq(b, 1, 8))

\* newTraceID with b the 16 bytes rand.Read produced
newTraceID(b) == encoded[b]

\* what the trace middleware did: the id it chose, the bytes it drew, the
\* request it passed on, how often it called next, what the handler read
\* from that request, what the adapter's Write and the adapter returned
TraceRecord(id, bytes, req, calls, seen, wret, ret) ==
    [id |-> id, bytes |-> bytes, req |-> req, calls |-> calls, seen |-> seen,
     wret |-> wret, ret |-> ret]
NoTrace == TraceRecord("", <<>>, TracedRequest("", 0), 0, "", NilErr, NilErr)

\* a call that did not return: a panic went through it
Unwound == Fail("panic", 0, FALSE, FALSE, FALSE, <<>>)

\* the id TraceMiddleware uses for request r, b being what rand.Read gives
middlewareID(r, b) == IF r.hdr # "" THEN r.hdr ELSE newTraceID(b)

\* TraceMiddleware up to the call of next, on contexts cs: the contexts
\* after WithTraceID, and the request r.WithContext(ctx) handed to next
tracedContexts(cs, r, b) == ContextWithTraceID(cs, r.ctx, middlewareID(r, b)).ctxs
tracedRequest(cs, r, b) ==
    TracedRequest(r.hdr, ContextWithTraceID(cs, r.ctx, middlewareID(r, b)).ctx)

\* the adapters: net/http itself, chi (TraceMiddleware as it is), gin and
\* echo (TraceMiddleware around a closure that rebinds the request)
Adapters == {"http", "chi", "gin", "echo"}

handlerRequest_NotRebound(adapter, inbound, derived) ==
    IF adapter \in {"gin", "echo"} THEN inbound ELSE derived

\* the request the handler and the adapter's Write work with: the one next
\* was called with; gin and echo store it in their context first
\* (c.Request = r, c.SetRequest(r))
handlerRequest(adapter, inbound, derived) == derived

adapterReturn_Propagate(adapter, hret) == IF adapter = "echo" THEN hret ELSE NilErr

\* what the adapter's middleware returns to its framework when the handler
\* returned hret: echo's Trace drops it and returns nil, the others return
\* nothing
adapterReturn(adapter, hret) == NilErr

(* ------------------------------- inputs -------------------------------- *)
\* process-wide error values an application declares: built by New, by
\* Wrap, or written as struct literals (which may leave Status 0, the
\* message or the code empty)
ErrNotFound == New("NOT_FOUND", 404, "not found")
ErrLiteralNoStatus == MkErr("INTERNAL", "error", 0, "", FALSE, 0, NilErr, 0)
ErrLiteralZero == MkErr("", "", 0, "", FALSE, 0, NilErr, 0)
ErrDownstream ==
    CloneRetryable(CloneDetails(Wrap("DOWNSTREAM_ERROR", 502, "", DeadlineExceeded), 1), TRUE)

ErrLiteralPreset == MkErr("RATE_LIMITED", "", 1, "e1", TRUE, 0, Opaque, 30 * Second)

Protos == {ErrNotFound, ErrLiteralNoStatus, ErrLiteralZero, ErrDownstream, ErrLiteralPreset}

\* further values handed to Write: retry delays of one and a half seconds
\* and of half a second, a status net/http refuses together with a negative
\* delay, details json cannot encode together with a delay of 90 s, and a
\* negative delay on an otherwise ordinary error
ErrRetrySoon == CloneRetryAfter(RateLimited("slow down"), Second + 500)
ErrRetrySubSecond == CloneRetryAfter(Unavailable(""), 500)
ErrBadStatus == CloneRetryAfter(CloneStatus(NotFound(""), 42), 0 - Second)
ErrUnencodable == CloneRetryAfter(CloneDetails(Internal("boom"), DetailsUnencodable), 90 * Second)

ErrRetryNegative == CloneRetryAfter(Conflict(""), 0 - Second)

WriteProtos ==
    Protos \cup {ErrRetrySoon, ErrRetrySubSecond, ErrRetryNegative, ErrBadStatus, ErrUnencodable}

\* error values of the kinds From tells apart, over n heap objects
Leaves(n) ==
    {Ptr(a) : a \in 0..n} \cup {DeadlineExceeded, Canceled, Opaque}
      \cup {Custom(TRUE, t, hp, <<>>) : t \in BOOLEAN, hp \in BOOLEAN}

RECURSIVE Failures(_, _)
Failures(n, d) ==
    IF d = 0 THEN Leaves(n)
    ELSE LET S == Failures(n, d - 1)
         IN  S \cup {WrapErr(x) : x \in S}
               \cup {JoinErr(x, y) : x \in S, y \in S}
               \cup {Custom(TRUE, t, TRUE, <<x>>) : t \in BOOLEAN, x \in S}

TraceHeaders == {"", "h1", "h2"}
TraceContexts == {"", "c1"}
Requests == {NilRequest} \cup {Request(FALSE, hd, cx) : hd \in TraceHeaders, cx \in TraceContexts}

Procs == 1..NProc

Op(n, rc, a, r, rt) == [name |-> n, recv |-> rc, arg |-> a, req |-> r, ret |-> rt]
NoOp == Op("none", 0, NilErr, NilRequest, Out("nil", 0))

\* a call of a constructor: its name and its arguments (those the
\* constructor does not take are zero)
Call(fn, code, status, msg, service, cause) ==
    [fn |-> fn, code |-> code, status |-> status, msg |-> msg, service |-> service,
     cause |-> cause]
NoCall == Call("none", "", 0, "", "", NilErr)

(* --------------------------- the With* methods ------------------------- *)
\* e.WithX(x) on the object at address a: a new object, a itself untouched
Alloc(name, a, rec) ==
    /\ a \in 1..Len(heap)
    /\ Len(heap) < MaxObj
    /\ heap' = Append(heap, rec)
    /\ made' = Append(made, rec)
    /\ op' = Op(name, a, NilErr, NilRequest, Out("ptr", Len(heap) + 1))
    /\ UNCHANGED <<resp, arg, call, ctxs, mw, phase, pc, loc, presp, payload>>

InPlace(name, a, rec) ==
    /\ a \in 1..Len(heap)
    /\ Len(heap) < MaxObj
    /\ heap' = [heap EXCEPT ![a] = rec]
    /\ made' = made
    /\ op' = Op(name, a, NilErr, NilRequest, Out("ptr", a))
    /\ UNCHANGED <<resp, arg, call, ctxs, mw, phase, pc, loc, presp, payload>>

WithDetails(a, d) == Alloc("WithDetails", a, CloneDetails(heap[a], d))

WithTraceID_InPlace(a, id) == InPlace("WithTraceID", a, CloneTraceID(heap[a], id))

WithTraceID(a, id) == Alloc("WithTraceID", a, CloneTraceID(heap[a], id))

WithRetryable(a, v) == Alloc("WithRetryable", a, CloneRetryable(heap[a], v))

WithStatus(a, st) == Alloc("WithStatus", a, CloneStatus(heap[a], st))

WithRetryAfter(a, d) == Alloc("WithRetryAfter", a, CloneRetryAfter(heap[a], d))

WithNames == {"WithDetails", "WithTraceID", "WithRetryable", "WithStatus", "WithRetryAfter"}

\* the details values that are Go maps: a map value is a reference, and
\* every Error whose Details holds it reaches the same entries
DetailsMap == 1

MapPayloads == {DetailsMap, DetailsEmptyMap, DetailsService}

NoEntries == [m \in MapPayloads |-> 0]

InitCommon ==
    /\ made = heap
    /\ payload = NoEntries
    /\ ctxs = BaseContexts
    /\ mw = NoTrace
    /\ op = NoOp
    /\ resp = NoResponse
    /\ pc = [p \in Procs |-> "idle"]
    /\ loc = [p \in Procs |-> [req |-> NilRequest]]
    /\ presp = [p \in Procs |-> NoResponse]

InitWith ==
    /\ heap \in {<<p>> : p \in Protos}
    /\ arg = NilErr
    /\ phase = "with"
    /\ call = NoCall
    /\ InitCommon

\* the caller writes an entry of the details map it reaches through the
\* value a With* call has just returned: c.Details.(map[string]any)[k] = v
SetDetailsEntry(c) ==
    /\ op.name \in WithNames
    /\ c = op.ret.addr
    /\ heap[c].Details \in MapPayloads
    /\ payload[heap[c].Details] = 0
    /\ payload' = [payload EXCEPT ![heap[c].Details] = 1]
    /\ op' = Op("SetDetailsEntry", c, NilErr, NilRequest, Out("ptr", c))
    /\ UNCHANGED <<heap, made, resp, arg, call, ctxs, mw, phase, pc, loc, presp>>

NextWith ==
    \E a \in 1..Len(heap) :
        \/ SetDetailsEntry(a)
        \/ \E d \in {DetailsMap, DetailsUnencodable} : WithDetails(a, d)
        \/ \E id \in {"e1", "e2"} : WithTraceID(a, id)
        \/ \E v \in BOOLEAN : WithRetryable(a, v)
        \/ \E st \in {0, 410} : WithStatus(a, st)
        \/ \E d \in {500, 30 * Second} : WithRetryAfter(a, d)

SpecWith == InitWith /\ [][NextWith]_vars


\* C1: a call of WithDetails, WithTraceID, WithRetryable, WithStatus or
\* WithRetryAfter, on an error or on a value derived from it, changes no
\* field of any error that existed before the call; it returns a new object.
C1_WithLeavesReceiver ==
    [][op'.name \in WithNames =>
          /\ op'.ret.addr \notin 1..Len(heap)
          /\ \A a \in 1..Len(heap) : heap'[a] = heap[a]]_vars

\* a With* call on a value that itself came from a With* call on the
\* prototype, whose result differs from the prototype
C1_Witness ==
    /\ op.name \in WithNames
    /\ op.recv = 2
    /\ op.ret.addr = 3
    /\ heap[3] # heap[1]
    /\ heap[3] # heap[2]

(* ------------------------ sequential use of Write ---------------------- *)
\* errors a handler passes to Write: nothing, a process-wide value (bare or
\* wrapped), or a failure From has to classify
WriteInputs(n) == {NilErr} \cup Leaves(n) \cup {WrapErr(Ptr(a)) : a \in 1..n}

\* one handler call Write(w, r, err) with a fresh ResponseWriter; the object
\* From allocates for a classified failure is unreachable once Write returns
CallWrite(r, f) ==
    LET w == Write(heap, r, f)
    IN  /\ heap' = SubSeq(w.heap, 1, Len(heap))
        /\ made' = made
        /\ resp' = w.resp
        /\ op' = Op("Write", 0, f, r, w.ret)
        /\ UNCHANGED <<arg, call, ctxs, mw, phase, pc, loc, presp, payload>>

Init ==
    /\ heap \in {<<p>> : p \in WriteProtos}
    /\ arg = NilErr
    /\ phase = "serve"
    /\ call = NoCall
    /\ InitCommon

Next == \E r \in Requests, f \in WriteInputs(Len(heap)) : CallWrite(r, f)

Spec == Init /\ [][Next]_vars

\* C2: Write called with an Error whose TraceID is empty, for a request
\* that carries a trace id, leaves that Error's TraceID empty.
C2_WriteKeepsTraceIDEmpty ==
    [][\A a \in 1..Len(heap) :
          (/\ op'.name = "Write"
           /\ op'.ret = Out("ptr", a)
           /\ heap[a].TraceID = ""
           /\ TraceIDFromRequest(op'.req) # "")
          => heap'[a].TraceID = ""]_vars

\* C3: every Write that reuses a process-wide Error created with an empty
\* TraceID answers with the trace id of its own request, in the
\* X-Request-Id header and in the body, whatever Writes came before.
C3_WriteUsesOwnRequestTrace ==
    (op.name = "Write" /\ op.ret = Out("ptr", 1) /\ made[1].TraceID = "")
    => /\ resp.trace = TraceIDFromRequest(op.req)
       /\ resp.body.trace_id = TraceIDFromRequest(op.req)


(* ------------------------------ From alone ----------------------------- *)
\* one call From(arg), then From applied to what it returned
CallFrom ==
    /\ phase = "ready"
    /\ LET fr == From(heap, arg)
       IN  /\ heap' = fr.heap
           /\ made' = made \o SubSeq(fr.heap, Len(heap) + 1, Len(fr.heap))
           /\ op' = Op("From", 0, arg, NilRequest, fr.ret)
    /\ phase' = "called"
    /\ UNCHANGED <<resp, arg, call, ctxs, mw, pc, loc, presp, payload>>

\* what From returned, passed as an error: a nil *Error from From(nil) was
\* returned for a nil error and is passed on as such
returnedError(ret) == IF ret.kind = "ptr" THEN Ptr(ret.addr) ELSE NilErr

CallFromAgain ==
    /\ phase = "called"
    /\ op.ret.kind \in {"ptr", "nil"}
    /\ LET fr == From(heap, returnedError(op.ret))
       IN  /\ heap' = fr.heap
           /\ made' = made \o SubSeq(fr.heap, Len(heap) + 1, Len(fr.heap))
           /\ op' = Op("FromAgain", 0, returnedError(op.ret), NilRequest, fr.ret)
    /\ phase' = "again"
    /\ UNCHANGED <<resp, arg, call, ctxs, mw, pc, loc, presp, payload>>

InitFrom ==
    /\ heap \in {<<p>> : p \in Protos}
    /\ arg \in {NilErr} \cup Failures(1, MaxDepth)
    /\ phase = "ready"
    /\ call = NoCall
    /\ InitCommon

NextFrom == CallFrom \/ CallFromAgain

SpecFrom == InitFrom /\ [][NextFrom]_vars

\* the error values reachable from f by unwrapping (f included)
RECURSIVE Chain(_)
Chain(f) == {f} \cup UNION {Chain(f.subs[i]) : i \in 1..Len(f.subs)}

HasError(f) == \E g \in Chain(f) : g.kind = "ptr"
HasDeadline(f) == \E g \in Chain(f) : g.kind = "deadline"
HasCanceled(f) == \E g \in Chain(f) : g.kind = "canceled"

\* the first error in unwrap order that declares Timeout() and Temporary()
RECURSIVE FirstNetError(_)
FirstNetError(f) ==
    IF f.hasTmo /\ f.hasTmp THEN <<f>>
    ELSE LET found == [i \in 1..Len(f.subs) |-> FirstNetError(f.subs[i])]
             hits == {i \in 1..Len(f.subs) : found[i] # <<>>}
         IN  IF hits = {} THEN <<>>
             ELSE found[CHOOSE i \in hits : \A j \in hits : i <= j]

NetTimeout(f) == FirstNetError(f) # <<>> /\ FirstNetError(f)[1].tmo

\* the error From returned in the last step is a new one with these fields
Classified(code, status, retryable) ==
    /\ op.ret = Out("ptr", 2)
    /\ Len(heap) = 2
    /\ heap[2].Code = code
    /\ heap[2].Status = status
    /\ heap[2].Retryable = retryable

\* C5: From decides by the first rule that matches, in the order
\* passthrough, deadline-exceeded, canceled, network-timeout, internal.
C5_FirstMatchingRuleDecides ==
    (op.name = "From" /\ op.arg.kind # "nil") =>
        IF HasError(op.arg)
          THEN Len(heap) = 1 /\ op.ret \in {Out("ptr", 1), Out("panic", 0)}
        ELSE IF HasDeadline(op.arg) THEN Classified("TIMEOUT", 504, TRUE)
        ELSE IF HasCanceled(op.arg) THEN Classified("CANCELED", 499, FALSE)
        ELSE IF asNetError(heap, op.arg).ok /\ asNetError(heap, op.arg).tmo
          THEN Classified("TIMEOUT", 504, TRUE)
        ELSE Classified("INTERNAL", 500, FALSE)

\* a join of the deadline and the canceled signal is a timeout
C5_Witness ==
    /\ op.name = "From"
    /\ op.arg = JoinErr(Canceled, DeadlineExceeded)
    /\ Classified("TIMEOUT", 504, TRUE)

\* C6: for a failure that is or unwraps to an Error instance, From returns
\* that instance; of its fields only Status (0 becomes 500) and Message
\* (empty becomes the code's default) change.
C6_PassthroughKeepsFields ==
    [][(/\ op'.name \in {"From", "FromAgain"}
        /\ asError(heap, op'.arg).ok
        /\ asError(heap, op'.arg).addr # 0)
       => LET a == asError(heap, op'.arg).addr
          IN  /\ op'.ret = Out("ptr", a)
              /\ Len(heap') = Len(heap)
              /\ \A b \in 1..Len(heap) : b # a => heap'[b] = heap[b]
              /\ heap'[a].Code = heap[a].Code
              /\ heap'[a].TraceID = heap[a].TraceID
              /\ heap'[a].Details = heap[a].Details
              /\ heap'[a].Retryable = heap[a].Retryable
              /\ heap'[a].RetryAfter = heap[a].RetryAfter
              /\ heap'[a].Cause = heap[a].Cause
              /\ heap'[a].Status = (IF heap[a].Status = 0 THEN 500 ELSE heap[a].Status)
              /\ heap'[a].Message = (IF heap[a].Message = ""
                                       THEN defaultMessage(heap[a].Code)
                                       ELSE heap[a].Message)]_vars

\* a wrapped struct literal with trace id, details and retry-after set but
\* no status and no message has come back with both filled in
C6_Witness ==
    /\ op.name = "From"
    /\ op.arg = WrapErr(Ptr(1))
    /\ op.ret = Out("ptr", 1)
    /\ heap[1] = [ErrLiteralPreset EXCEPT !.Status = 500, !.Message = "Rate limited"]

\* C7: a failure with no Error in it that is, wraps or is joined with the
\* deadline-exceeded signal comes back as TIMEOUT, 504, retryable.
C7_DeadlineIsTimeout ==
    (op.name = "From" /\ ~HasError(op.arg) /\ HasDeadline(op.arg))
    => Classified("TIMEOUT", 504, TRUE)

C7_Witness ==
    /\ op.name = "From"
    /\ op.arg = JoinErr(Opaque, DeadlineExceeded)
    /\ heap[op.ret.addr].Code = "TIMEOUT"

\* C8: a failure that matches neither passthrough nor deadline-exceeded and
\* is or wraps the canceled signal comes back as CANCELED, 499, not retryable.
C8_CanceledIsCanceled ==
    (op.name = "From" /\ ~HasError(op.arg) /\ ~HasDeadline(op.arg) /\ HasCanceled(op.arg))
    => Classified("CANCELED", 499, FALSE)

C8_Witness ==
    /\ op.name = "From"
    /\ op.arg = WrapErr(Canceled)
    /\ heap[op.ret.addr].Code = "CANCELED"

NoEarlierRule(f) == f.kind # "nil" /\ ~HasError(f) /\ ~HasDeadline(f) /\ ~HasCanceled(f)

\* C9 as stated: a failure that matches no earlier rule and has a Timeout()
\* method returning true is TIMEOUT, 504, retryable, whatever else it
\* declares; one whose Timeout() returns false is not made a TIMEOUT.
C9_AnyTimeoutMethod ==
    (op.name = "From" /\ NoEarlierRule(op.arg) /\ op.arg.hasTmo) =>
        IF op.arg.tmo THEN Classified("TIMEOUT", 504, TRUE)
        ELSE Classified("INTERNAL", 500, FALSE)

\* C9 amended: the rule looks for the first error in unwrap order that
\* declares both Timeout() and Temporary() (net.Error); the failure is
\* TIMEOUT, 504, retryable exactly when that error's Timeout() is true,
\* and INTERNAL otherwise.
C9_NetErrorTimeout ==
    (op.name = "From" /\ NoEarlierRule(op.arg)) =>
        IF NetTimeout(op.arg) THEN Classified("TIMEOUT", 504, TRUE)
        ELSE Classified("INTERNAL", 500, FALSE)

\* a type with Timeout() true but no Temporary() has been made INTERNAL
C9_Witness ==
    /\ op.name = "From"
    /\ op.arg = Custom(TRUE, TRUE, FALSE, <<>>)
    /\ Classified("INTERNAL", 500, FALSE)

\* C10: a failure that matches no rule comes back as INTERNAL, 500, not
\* retryable, with the failure itself as cause, so that unwrapping the
\* result yields it.
C10_InternalKeepsCause ==
    (op.name = "From" /\ NoEarlierRule(op.arg) /\ ~NetTimeout(op.arg)) =>
        /\ Classified("INTERNAL", 500, FALSE)
        /\ heap[2].Cause = op.arg
        /\ Children(heap, Ptr(2)) = <<op.arg>>

C10_Witness ==
    /\ op.name = "From"
    /\ op.arg = WrapErr(Opaque)
    /\ heap[2].Cause = WrapErr(Opaque)


(* ------------------- concurrent requests, one shared error ------------- *)
\* Each request p runs Write(w, r, ErrShared) in its own goroutine, the
\* shared value being heap[1]; one action per access to a field of it.
\* Nothing orders the goroutines, so a string read that runs while another
\* goroutine is at the assignment to that field is a data race and may see
\* the old value, the new one or a torn one.
Shared == 1
ProcRequest(p) == Request(FALSE, "h" \o ToString(p), "")
Torn == "<torn>"

Goto(p, l) == pc' = [pc EXCEPT ![p] = l]

Start(p) ==
    /\ pc[p] = "idle"
    /\ loc' = [loc EXCEPT ![p].req = ProcRequest(p)]
    /\ Goto(p, "chkStatus")
    /\ UNCHANGED <<heap, made, op, resp, arg, call, ctxs, mw, phase, presp, payload>>

\* From: if e.Status == 0
ChkStatus(p) ==
    /\ pc[p] = "chkStatus"
    /\ Goto(p, IF heap[Shared].Status = 0 THEN "setStatus" ELSE "chkMessage")
    /\ UNCHANGED <<heap, made, op, resp, arg, call, ctxs, mw, phase, loc, presp, payload>>

\* From: e.Status = http.StatusInternalServerError
SetStatus(p) ==
    /\ pc[p] = "setStatus"
    /\ heap' = [heap EXCEPT ![Shared].Status = StatusInternalServerError]
    /\ Goto(p, "chkMessage")
    /\ UNCHANGED <<made, op, resp, arg, call, ctxs, mw, phase, loc, presp, payload>>

\* From: if e.Message == ""
ChkMessage(p) ==
    /\ pc[p] = "chkMessage"
    /\ Goto(p, IF heap[Shared].Message = "" THEN "setMessage" ELSE "chkTrace")
    /\ UNCHANGED <<heap, made, op, resp, arg, call, ctxs, mw, phase, loc, presp, payload>>

\* From: e.Message = defaultMessage(e.Code)
SetMessage(p) ==
    /\ pc[p] = "setMessage"
    /\ heap' = [heap EXCEPT ![Shared].Message = defaultMessage(heap[Shared].Code)]
    /\ Goto(p, "chkTrace")
    /\ UNCHANGED <<made, op, resp, arg, call, ctxs, mw, phase, loc, presp, payload>>

\* Write: if e.TraceID == ""
ChkTrace(p) ==
    /\ pc[p] = "chkTrace"
    /\ Goto(p, IF heap[Shared].TraceID = "" THEN "setTrace" ELSE "hdrTrace")
    /\ UNCHANGED <<heap, made, op, resp, arg, call, ctxs, mw, phase, loc, presp, payload>>

\* Write: e.TraceID = TraceIDFromRequest(r)
SetTrace(p) ==
    /\ pc[p] = "setTrace"
    /\ heap' = [heap EXCEPT ![Shared].TraceID = TraceIDFromRequest(loc[p].req)]
    /\ Goto(p, "hdrTrace")
    /\ UNCHANGED <<made, op, resp, arg, call, ctxs, mw, phase, loc, presp, payload>>

\* what a read of e.TraceID by p may return
ReadTraceID(p) ==
    {heap[Shared].TraceID} \cup
    UNION {{TraceIDFromRequest(loc[q].req), Torn} : q \in {q \in Procs : q # p /\ pc[q] = "setTrace"}}

\* what a read of e.Message by p may return
ReadMessage(p) ==
    {heap[Shared].Message} \cup
    UNION {{defaultMessage(heap[Shared].Code), Torn} :
              q \in {q \in Procs : q # p /\ pc[q] = "setMessage"}}

\* Write: if e.TraceID != "" { w.Header().Set(HeaderTraceID, e.TraceID) }
HdrTrace(p) ==
    /\ pc[p] = "hdrTrace"
    /\ \E t \in ReadTraceID(p) :
          presp' = [presp EXCEPT ![p].trace = t,
                                 ![p].log = IF t # "" THEN Append(@, "X-Request-Id") ELSE @]
    /\ Goto(p, "retry")
    /\ UNCHANGED <<heap, made, op, resp, arg, call, ctxs, mw, phase, loc, payload>>

\* Write: the Retry-After header
Retry(p) ==
    /\ pc[p] = "retry"
    /\ LET d == heap[Shared].RetryAfter
       IN  presp' = IF d > 0
                      THEN [presp EXCEPT ![p].retry = ToString(retryAfterSeconds(d)),
                                         ![p].log = Append(@, "Retry-After")]
                      ELSE presp
    /\ Goto(p, "commit")
    /\ UNCHANGED <<heap, made, op, resp, arg, call, ctxs, mw, phase, loc, payload>>

\* Write: status := e.Status ...; Content-Type; w.WriteHeader(status)
Commit(p) ==
    /\ pc[p] = "commit"
    /\ LET status == IF heap[Shared].Status = 0 THEN StatusInternalServerError
                     ELSE heap[Shared].Status
       IN  IF status < 100 \/ status > 999
             THEN /\ presp' = [presp EXCEPT ![p].ctype = "application/json",
                                            ![p].log = Append(@, "Content-Type")]
                  /\ Goto(p, "panicked")
             ELSE /\ presp' = [presp EXCEPT ![p].ctype = "application/json",
                                            ![p].status = status,
                                            ![p].log = @ \o <<"Content-Type", "status">>]
                  /\ Goto(p, "encode")
    /\ UNCHANGED <<heap, made, op, resp, arg, call, ctxs, mw, phase, loc, payload>>

\* Write: _ = json.NewEncoder(w).Encode(e)
Encode(p) ==
    /\ pc[p] = "encode"
    /\ \E t \in ReadTraceID(p), m \in ReadMessage(p) :
          LET js == MarshalJSON([heap[Shared] EXCEPT !.TraceID = t, !.Message = m])
          IN  presp' = IF js.ok
                         THEN [presp EXCEPT ![p].body = js, ![p].log = Append(@, "body")]
                         ELSE presp
    /\ Goto(p, "done")
    /\ UNCHANGED <<heap, made, op, resp, arg, call, ctxs, mw, phase, loc, payload>>

InitConc ==
    /\ heap \in {<<e>> : e \in Protos}
    /\ arg = Ptr(Shared)
    /\ phase = "concurrent"
    /\ call = NoCall
    /\ InitCommon

NextConc ==
    \E p \in Procs :
        \/ Start(p)
        \/ ChkStatus(p)
        \/ SetStatus(p)
        \/ ChkMessage(p)
        \/ SetMessage(p)
        \/ ChkTrace(p)
        \/ SetTrace(p)
        \/ HdrTrace(p)
        \/ Retry(p)
        \/ Commit(p)
        \/ Encode(p)

SpecConc == InitConc /\ [][NextConc]_vars

\* the fields of the shared error the next step of p reads and writes
Reads(p) ==
    CASE pc[p] \in {"chkStatus", "commit"} -> {"Status"}
      [] pc[p] = "chkMessage" -> {"Message"}
      [] pc[p] \in {"chkTrace", "hdrTrace"} -> {"TraceID"}
      [] pc[p] = "retry" -> {"RetryAfter"}
      [] pc[p] = "encode" ->
            {"Code", "Message", "Details", "TraceID", "Retryable", "RetryAfter"}
      [] OTHER -> {}

Writes(p) ==
    CASE pc[p] = "setStatus" -> {"Status"}
      [] pc[p] = "setMessage" -> {"Message"}
      [] pc[p] = "setTrace" -> {"TraceID"}
      [] OTHER -> {}

Race(p, q) ==
    /\ p # q
    /\ Writes(p) \cap (Reads(q) \cup Writes(q)) # {}

\* C4: while requests that use the same shared Error are in flight, no
\* request is about to write a field of it, no two of them have conflicting
\* accesses to a field pending, and no finished response carries the trace
\* id of another request.
C4_NoSharedWriteNoLeak ==
    /\ \A p \in Procs : Writes(p) = {}
    /\ \A p \in Procs, q \in Procs : ~Race(p, q)
    /\ \A p \in Procs :
          pc[p] = "done" =>
             \A q \in Procs \ {p} :
                /\ presp[p].trace # TraceIDFromRequest(ProcRequest(q))
                /\ presp[p].body.trace_id # TraceIDFromRequest(ProcRequest(q))

(* --------------------------- From is total ----------------------------- *)
\* C11: From never fails: an absent failure gives an absent result, and
\* every other input, a nil Error pointer inside a non-nil error and an
\* Error with an empty code included, gives a defined Error.
C11_FromIsTotal ==
    op.name = "From" =>
        IF op.arg.kind = "nil" THEN op.ret = Out("nil", 0)
        ELSE op.ret.kind = "ptr" /\ op.ret.addr \in 1..Len(heap)

(* ------------------------ Write of an absent failure ------------------- *)
\* C12: Write called with an absent failure commits status 204 and does
\* nothing else: no header (trace id, retry-after, content type) and no
\* body, even when the request carries a trace id.
C12_NilWritesOnlyNoContent ==
    (op.name = "Write" /\ op.arg.kind = "nil")
    => /\ resp.status = StatusNoContent
       /\ resp.log = <<"status">>
       /\ resp.trace = "" /\ resp.retry = "" /\ resp.ctype = ""
       /\ resp.body = NoBody
       /\ op.ret = Out("nil", 0)

\* an absent failure written for a request with both trace sources set
C12_Witness ==
    /\ op.name = "Write"
    /\ op.arg.kind = "nil"
    /\ op.req = Request(FALSE, "h1", "c1")
    /\ resp.status = StatusNoContent

(* ------------------------- the emitted trace id ------------------------ *)
\* the TraceID field, when Write is called, of the Error it is about to
\* emit: the object at address a, or a new one From builds (no trace id)
ownTraceID(a) == IF a \in 1..Len(heap) THEN heap[a].TraceID ELSE ""

\* the first non-empty of: the error's TraceID, the request's X-Request-Id
\* header, the trace value of the request's context
firstTraceSource(own, r) ==
    IF own # "" THEN own
    ELSE IF r.nil THEN ""
    ELSE IF r.hdr # "" THEN r.hdr
    ELSE r.ctx

\* C13: for a failure that is not absent, the trace id Write emits is the
\* first non-empty of the error's own TraceID, the request's header and
\* the request's context value; X-Request-Id is set exactly when that
\* value is non-empty, and the trace_id of the body Write sends equals the
\* header; with no request or no source there is neither.
C13_TraceIDResolution ==
    [][(op'.name = "Write" /\ op'.arg.kind # "nil" /\ op'.ret.addr # 0)
       => /\ resp'.trace = firstTraceSource(ownTraceID(op'.ret.addr), op'.req)
          /\ (\E i \in 1..Len(resp'.log) : resp'.log[i] = "X-Request-Id")
               <=> firstTraceSource(ownTraceID(op'.ret.addr), op'.req) # ""
          /\ resp'.body.ok => resp'.body.trace_id = resp'.trace]_vars

\* an error with its own trace id written for a request that has a header
\* and a context value: the error's id is sent in header and body
C13_Witness ==
    /\ op.name = "Write"
    /\ op.ret = Out("ptr", 1)
    /\ made[1].TraceID = "e1"
    /\ op.req = Request(FALSE, "h1", "c1")
    /\ resp.trace = "e1"
    /\ resp.body.ok
    /\ resp.body.trace_id = "e1"

(* ------------------------ the Retry-After header ----------------------- *)
\* a positive duration in whole seconds, rounded up, never less than 1
ceilSeconds(d) ==
    IF (d + Second - 1) \div Second < 1 THEN 1 ELSE (d + Second - 1) \div Second

\* C14: for an error with a positive retry-after duration, the Retry-After
\* header Write sets is the duration in whole seconds rounded up, and never
\* less than 1 (between 1 and 2 seconds gives 2, under a second gives 1).
C14_RetryAfterIsCeiling ==
    (op.name = "Write" /\ op.ret.addr = 1 /\ heap[1].RetryAfter > 0)
    => resp.retry = ToString(ceilSeconds(heap[1].RetryAfter))

\* the retry-after duration of the error the last Write emitted: that of
\* the caller's Error, or none for an error From built
emittedRetryAfter == IF op.ret.addr = 1 THEN heap[1].RetryAfter ELSE 0

\* how a duration reads as text: 500ms, 1.5s, 30s, 1m30s
rendered(d) ==
    CASE d = 500 -> "500ms"
      [] d = Second + 500 -> "1.5s"
      [] d = 30 * Second -> "30s"
      [] d = 90 * Second -> "1m30s"
      [] OTHER -> "?"

\* C15: for every error Write emits, the Retry-After header and the
\* retry_after field of the body are both present when the error's
\* retry-after duration is positive and both absent when it is zero or
\* negative; the body field is the duration as text (30 s gives the header
\* "30" and the field "30s").
C15_RetryAfterHeaderAndBody ==
    (op.name = "Write" /\ op.ret.kind = "ptr")
    => IF emittedRetryAfter > 0
         THEN /\ resp.retry # ""
              /\ \E i \in 1..Len(resp.log) : resp.log[i] = "Retry-After"
              /\ resp.body.ok => resp.body.retry_after = rendered(emittedRetryAfter)
              /\ emittedRetryAfter = 30 * Second => resp.retry = "30"
         ELSE /\ resp.retry = ""
              /\ \A i \in 1..Len(resp.log) : resp.log[i] # "Retry-After"
              /\ resp.body.retry_after = ""

\* a 30 second delay sent as "30" in the header and "30s" in the body
C15_Witness ==
    /\ op.name = "Write"
    /\ op.ret = Out("ptr", 1)
    /\ heap[1].RetryAfter = 30 * Second
    /\ resp.retry = "30"
    /\ resp.body.ok
    /\ resp.body.retry_after = "30s"

(* ---------------------- code and status at emission -------------------- *)
\* C16: every error Write emits, however it was built (constructor, struct
\* literal or From), goes out with a non-zero status, 500 when the error's
\* status was 0, and with a non-empty code in the body.
C16_EmittedCodeAndStatusResolved ==
    (op.name = "Write" /\ op.ret.kind = "ptr" /\ resp.body.ok)
    => /\ resp.status # 0
       /\ (op.ret.addr = 1 /\ made[1].Status = 0) => resp.status = StatusInternalServerError
       /\ resp.body.code # ""

(* ---------------------- Write always answers in full ------------------- *)
\* C17: for every failure that is not absent, whatever status and details
\* the error carries, Write ends having committed exactly one status and
\* sent a complete, well-formed body: no response is left without status
\* or without body.
C17_WriteAlwaysCompletes ==
    (op.name = "Write" /\ op.arg.kind # "nil" /\ op.ret.addr # 0)
    => /\ op.ret.kind = "ptr"
       /\ resp.status # 0
       /\ Cardinality({i \in 1..Len(resp.log) : resp.log[i] = "status"}) = 1
       /\ resp.body.ok
       /\ resp.log[Len(resp.log)] = "body"

(* --------------------------- the constructors -------------------------- *)
\* the codes of the error-code table
TableCodes ==
    {"INTERNAL", "BAD_REQUEST", "VALIDATION_FAILED", "UNAUTHORIZED", "FORBIDDEN",
     "NOT_FOUND", "METHOD_NOT_ALLOWED", "REQUEST_TIMEOUT", "CONFLICT", "GONE",
     "PAYLOAD_TOO_LARGE", "UNPROCESSABLE_ENTITY", "RATE_LIMITED", "CANCELED",
     "UNAVAILABLE", "TIMEOUT", "DOWNSTREAM_ERROR", "DOWNSTREAM_TIMEOUT"}

\* codes a caller may pass to New: those of the table, none, one of its own
CallCodes == TableCodes \cup {"", "TEAPOT"}
CallStatuses == {0, 404, 42}
Messages == {"", "m"}
Services == {"", "db"}
Causes == {NilErr, Opaque, DeadlineExceeded}

\* the constructors that take a message
MessageCtors ==
    {"Internal", "BadRequest", "Unauthorized", "Forbidden", "NotFound", "Conflict",
     "MethodNotAllowed", "RequestTimeout", "Gone", "PayloadTooLarge",
     "UnprocessableEntity", "RateLimited", "Timeout", "Unavailable"}
ServiceCtors == {"Downstream", "DownstreamTimeout"}

Calls ==
    {Call("New", c, st, m, "", NilErr) : c \in CallCodes, st \in CallStatuses, m \in Messages}
      \cup {Call(fn, "", 0, m, "", NilErr) : fn \in MessageCtors, m \in Messages}
      \cup {Call("Validation", "", 0, "", "", NilErr)}
      \cup {Call(fn, "", 0, "", sv, cs) : fn \in ServiceCtors, sv \in Services, cs \in Causes}

\* the Error the call c returns
construct(c) ==
    CASE c.fn = "New" -> New(c.code, c.status, c.msg)
      [] c.fn = "Internal" -> Internal(c.msg)
      [] c.fn = "BadRequest" -> BadRequest(c.msg)
      [] c.fn = "Validation" -> Validation(DetailsFields)
      [] c.fn = "Unauthorized" -> Unauthorized(c.msg)
      [] c.fn = "Forbidden" -> Forbidden(c.msg)
      [] c.fn = "NotFound" -> NotFound(c.msg)
      [] c.fn = "Conflict" -> Conflict(c.msg)
      [] c.fn = "MethodNotAllowed" -> MethodNotAllowed(c.msg)
      [] c.fn = "RequestTimeout" -> RequestTimeout(c.msg)
      [] c.fn = "Gone" -> Gone(c.msg)
      [] c.fn = "PayloadTooLarge" -> PayloadTooLarge(c.msg)
      [] c.fn = "UnprocessableEntity" -> UnprocessableEntity(c.msg)
      [] c.fn = "RateLimited" -> RateLimited(c.msg)
      [] c.fn = "Timeout" -> Timeout(c.msg)
      [] c.fn = "Unavailable" -> Unavailable(c.msg)
      [] c.fn = "Downstream" -> Downstream(c.service, c.cause)
      [] c.fn = "DownstreamTimeout" -> DownstreamTimeout(c.service, c.cause)

\* the call is made: its result is the one object of the heap
Construct ==
    /\ phase = "ready"
    /\ heap' = <<construct(call)>>
    /\ made' = <<construct(call)>>
    /\ op' = Op(call.fn, 0, call.cause, NilRequest, Out("ptr", 1))
    /\ phase' = "built"
    /\ UNCHANGED <<resp, arg, call, ctxs, mw, pc, loc, presp, payload>>

InitCtor ==
    /\ heap = <<>>
    /\ arg = NilErr
    /\ phase = "ready"
    /\ call \in Calls
    /\ InitCommon

NextCtor == Construct

SpecCtor == InitCtor /\ [][NextCtor]_vars

\* the codes that have a default message of their own
HasOwnMessage ==
    TableCodes \ {"INTERNAL", "METHOD_NOT_ALLOWED", "REQUEST_TIMEOUT"}

\* the codes retryable by default
RetryableByDefault == {"TIMEOUT", "DOWNSTREAM_TIMEOUT", "UNAVAILABLE", "RATE_LIMITED"}

TableStatus(code) ==
    CASE code = "INTERNAL" -> 500
      [] code = "BAD_REQUEST" -> 400
      [] code = "VALIDATION_FAILED" -> 400
      [] code = "UNAUTHORIZED" -> 401
      [] code = "FORBIDDEN" -> 403
      [] code = "NOT_FOUND" -> 404
      [] code = "METHOD_NOT_ALLOWED" -> 405
      [] code = "REQUEST_TIMEOUT" -> 408
      [] code = "CONFLICT" -> 409
      [] code = "GONE" -> 410
      [] code = "PAYLOAD_TOO_LARGE" -> 413
      [] code = "UNPROCESSABLE_ENTITY" -> 422
      [] code = "RATE_LIMITED" -> 429
      [] code = "CANCELED" -> 499
      [] code = "UNAVAILABLE" -> 503
      [] code = "TIMEOUT" -> 504
      [] code = "DOWNSTREAM_ERROR" -> 502
      [] code = "DOWNSTREAM_TIMEOUT" -> 504

TableRetryable ==
    {"REQUEST_TIMEOUT", "RATE_LIMITED", "UNAVAILABLE", "TIMEOUT", "DOWNSTREAM_ERROR",
     "DOWNSTREAM_TIMEOUT"}

\* New(code, 0, "") was called for a code of the table
NewWithDefaults ==
    op.name = "New" /\ call.code \in TableCodes /\ call.status = 0 /\ call.msg = ""

CtorCode(fn) ==
    CASE fn = "Internal" -> "INTERNAL"
      [] fn = "BadRequest" -> "BAD_REQUEST"
      [] fn = "Validation" -> "VALIDATION_FAILED"
      [] fn = "Unauthorized" -> "UNAUTHORIZED"
      [] fn = "Forbidden" -> "FORBIDDEN"
      [] fn = "NotFound" -> "NOT_FOUND"
      [] fn = "Conflict" -> "CONFLICT"
      [] fn = "MethodNotAllowed" -> "METHOD_NOT_ALLOWED"
      [] fn = "RequestTimeout" -> "REQUEST_TIMEOUT"
      [] fn = "Gone" -> "GONE"
      [] fn = "PayloadTooLarge" -> "PAYLOAD_TOO_LARGE"
      [] fn = "UnprocessableEntity" -> "UNPROCESSABLE_ENTITY"
      [] fn = "RateLimited" -> "RATE_LIMITED"
      [] fn = "Timeout" -> "TIMEOUT"
      [] fn = "Unavailable" -> "UNAVAILABLE"
      [] fn = "Downstream" -> "DOWNSTREAM_ERROR"
      [] fn = "DownstreamTimeout" -> "DOWNSTREAM_TIMEOUT"

\* C20: every convenience constructor returns, for every message or
\* service argument, an error with the code, the status and the retryable
\* flag of its row of the error-code table; Downstream and
\* DownstreamTimeout keep the cause they are given.
C20_ConstructorsFollowTable ==
    op.name \in MessageCtors \cup ServiceCtors \cup {"Validation"} =>
       /\ op.ret = Out("ptr", 1) /\ Len(heap) = 1
       /\ heap[1].Code = CtorCode(op.name)
       /\ heap[1].Status = TableStatus(CtorCode(op.name))
       /\ heap[1].Retryable = (CtorCode(op.name) \in TableRetryable)
       /\ op.name \in ServiceCtors => heap[1].Cause = call.cause

\* Downstream("db", context.DeadlineExceeded): the 502 row, cause kept
C20_Witness ==
    /\ op.name = "Downstream"
    /\ call.service = "db"
    /\ call.cause = DeadlineExceeded
    /\ heap[1].Code = "DOWNSTREAM_ERROR"
    /\ heap[1].Status = 502
    /\ heap[1].Retryable
    /\ heap[1].Cause = DeadlineExceeded

(* ------------------------------ Is alone ------------------------------- *)
\* an Error and an Error that wraps it, as in TestIs; the inner one at
\* address 1, the wrapper at address 2
ErrWrapper(code) == Wrap(code, StatusInternalServerError, "wrapper", Ptr(1))
IsHeaps ==
    {<<ErrNotFound, ErrWrapper("INTERNAL")>>, <<ErrNotFound, ErrWrapper("NOT_FOUND")>>,
     <<ErrLiteralZero, ErrWrapper("TIMEOUT")>>}
IsCodes == {"NOT_FOUND", "INTERNAL", "TIMEOUT", ""}
IsInputs == {NilErr} \cup Failures(2, 1)

\* one call Is(arg, call.code)
CallIs ==
    /\ phase = "ready"
    /\ op' = Op("Is", 0, arg, NilRequest, Out(Is(heap, arg, call.code), 0))
    /\ phase' = "called"
    /\ UNCHANGED <<heap, made, resp, arg, call, ctxs, mw, pc, loc, presp, payload>>

InitIs ==
    /\ heap \in IsHeaps
    /\ arg \in IsInputs
    /\ call \in {Call("Is", c, 0, "", "", NilErr) : c \in IsCodes}
    /\ phase = "ready"
    /\ InitCommon

NextIs == CallIs

SpecIs == InitIs /\ [][NextIs]_vars

\* some Error reached by unwrapping f carries the code
SomeErrorCarries(f, code) ==
    \E i \in 1..Len(Preorder(heap, f)) :
       /\ Preorder(heap, f)[i].kind = "ptr"
       /\ Preorder(heap, f)[i].addr # 0
       /\ heap[Preorder(heap, f)[i].addr].Code = code

\* no nil Error pointer is reached by unwrapping f
NoNilPointer(f) ==
    \A i \in 1..Len(Preorder(heap, f)) :
       Preorder(heap, f)[i].kind = "ptr" => Preorder(heap, f)[i].addr # 0

\* C21: Is(err, code) is true exactly when some Error in the unwrap chain
\* of err carries the code, so an Error with code A that wraps an Error
\* with code B matches A and B; it is false for a chain without such an
\* Error and for a nil error.
C21_IsMatchesAnyInChain ==
    (op.name = "Is" /\ NoNilPointer(op.arg))
    => op.ret.kind = (IF SomeErrorCarries(op.arg, call.code) THEN "true" ELSE "false")

(* ---------------- a request through the trace middleware --------------- *)
\* the contexts that are alive when a request arrives: those of finished
\* requests are unreachable
liveContexts == SubSeq(ctxs, 1, Len(BaseContexts))

InboundRequests == {TracedRequest(hd, cx) : hd \in {"", "h1"}, cx \in 1..Len(BaseContexts)}

\* what a handler passes to Write: nothing, a process-wide Error, a failure
HandlerErrors == {NilErr, Ptr(1), Opaque}
\* what an echo handler returns
HandlerReturns == {NilErr, Opaque}

TraceProtos == {ErrNotFound, ErrLiteralPreset, ErrUnencodable}

\* the request, as TraceIDFromRequest reads it, that the handler works with
servedRequest(adapter, r, b) ==
    asRequest(tracedContexts(liveContexts, r, b),
              handlerRequest(adapter, r, tracedRequest(liveContexts, r, b)))

\* the return of a call made around a Write that ended as wr
returned(wr, v) == IF wr.kind = "panic" THEN Unwound ELSE v

\* one request r served through the trace middleware of an adapter: the
\* middleware derives the traced request and calls the handler, the
\* handler reads the trace id, calls Write (the adapter's, where there is
\* one) with herr and returns hret
ServeTraced(adapter, r, b, herr, hret) ==
    /\ phase = "serve"
    /\ r.hdr # "" => b = ZeroBytes
    /\ adapter # "echo" => hret = NilErr
    /\ LET w == Write(heap, servedRequest(adapter, r, b), herr)
       IN  /\ heap' = SubSeq(w.heap, 1, Len(heap))
           /\ resp' = w.resp
           /\ op' = Op(adapter, 0, herr, asRequest(liveContexts, r), w.ret)
           /\ mw' = TraceRecord(middlewareID(r, b), IF r.hdr = "" THEN b ELSE <<>>,
                                tracedRequest(liveContexts, r, b), 1,
                                TraceIDFromRequest(servedRequest(adapter, r, b)),
                                returned(w.ret, NilErr),
                                returned(w.ret, adapterReturn(adapter, hret)))
    /\ made' = made
    /\ ctxs' = tracedContexts(liveContexts, r, b)
    /\ arg' = hret
    /\ UNCHANGED <<call, phase, pc, loc, presp, payload>>

InitTrace ==
    /\ heap \in {<<p>> : p \in TraceProtos}
    /\ arg = NilErr
    /\ call = NoCall
    /\ phase = "serve"
    /\ InitCommon

NextTrace ==
    \E adapter \in Adapters, r \in InboundRequests, b \in RandomBytes,
       herr \in HandlerErrors, hret \in HandlerReturns :
        ServeTraced(adapter, r, b, herr, hret)

SpecTrace == InitTrace /\ [][NextTrace]_vars

LowerHex == {"0", "1", "2", "3", "4", "5", "6", "7", "8", "9", "a", "b", "c", "d", "e", "f"}

\* C22: TraceMiddleware calls the next handler exactly once per request,
\* with a request whose context carries one trace id: the inbound
\* X-Request-Id header unchanged when it is non-empty, else a newly
\* generated identifier of 32 lowercase hexadecimal characters.
C22_MiddlewareAttachesOneTraceID ==
    op.name \in Adapters =>
       /\ mw.calls = 1
       /\ mw.req.hdr = op.req.hdr
       /\ ctxValue(ctxs, mw.req.ctx) = mw.id
       /\ IF op.req.hdr # "" THEN mw.id = op.req.hdr
          ELSE /\ Len(mw.id) = 32
               /\ Len(encodeDigits(mw.bytes)) = 32
               /\ \A i \in 1..32 : encodeDigits(mw.bytes)[i] \in LowerHex
               /\ mw.id = joinDigits(encodeDigits(mw.bytes))

\* a request without header whose context already carried a value: the
\* handler's context carries a generated id instead
C22_Witness ==
    /\ op.name = "http"
    /\ op.req.hdr = "" /\ op.req.ctx = "c1"
    /\ mw.calls = 1
    /\ Len(mw.id) = 32
    /\ mw.id # EncodeToString(ZeroBytes)
    /\ ctxValue(ctxs, mw.req.ctx) = mw.id

\* C23: for every request that passes through TraceMiddleware, directly or
\* through the chi, gin or echo adapter, and whose handler calls Write with
\* an error that has no trace id of its own, the response carries a
\* non-empty X-Request-Id header and, in its body, a trace_id, both equal
\* to the trace id the middleware attached to the request's context.
C23_TracedRequestAnswersWithItsID ==
    [][(/\ op'.name \in Adapters
        /\ op'.arg.kind # "nil"
        /\ op'.ret.kind = "ptr"
        /\ ownTraceID(op'.ret.addr) = "")
       => /\ resp'.trace # ""
          /\ resp'.trace = mw'.id
          /\ resp'.trace = ctxValue(ctxs', mw'.req.ctx)
          /\ resp'.body.ok => resp'.body.trace_id = mw'.id]_vars

\* a request without header through the gin adapter: the generated id is in
\* the header and in the body of the answer
C23_Witness ==
    /\ op.name = "gin"
    /\ op.req.hdr = ""
    /\ op.ret = Out("ptr", 1)
    /\ made[1].TraceID = ""
    /\ Len(mw.id) = 32
    /\ resp.trace = mw.id
    /\ resp.body.ok
    /\ resp.body.trace_id = mw.id

(* ------------------- what an unrecognized failure shows ---------------- *)
\* the response to an unrecognized failure, for a request whose trace id
\* is t: nothing in it comes from the failure
InternalResponse(t) ==
    Response(StatusInternalServerError, t, "", "application/json",
             [ok |-> TRUE, code |-> "INTERNAL", message |-> "Internal error",
              details |-> 0, trace_id |-> t, retryable |-> FALSE, retry_after |-> ""],
             (IF t # "" THEN <<"X-Request-Id">> ELSE <<>>) \o <<"Content-Type", "status", "body">>)

\* C24: the response Write gives for an unrecognized failure does not
\* depend on the failure: any two failures that the generic-internal rule
\* classifies get, for the same request, the same status, headers and
\* body, with the message "Internal error"; neither the cause nor the
\* status field is part of any serialized body.
C24_InternalResponseHidesFailure ==
    op.name = "Write" =>
       /\ DOMAIN resp.body \cap {"status", "Status", "cause", "Cause"} = {}
       /\ (NoEarlierRule(op.arg) /\ ~NetTimeout(op.arg))
            => resp = InternalResponse(firstTraceSource("", op.req))

\* a failure of a caller's type, with a Timeout method but no net.Error,
\* answered like any other unrecognized failure
C24_Witness ==
    /\ op.name = "Write"
    /\ op.arg = Custom(TRUE, TRUE, FALSE, <<>>)
    /\ op.req = Request(FALSE, "h1", "")
    /\ resp.status = StatusInternalServerError
    /\ resp.body.message = "Internal error"

(* --------------------------- the order of Write ------------------------ *)
\* the positions of the call named c in the calls the last Write made
CallsOf(c) == {i \in 1..Len(resp.log) : resp.log[i] = c}
HeaderNames == {"X-Request-Id", "Retry-After", "Content-Type"}

\* the details of the error the last Write emitted
emittedDetails == IF op.ret.addr = 1 THEN heap[1].Details ELSE 0

\* C25: in every Write for a failure that is not absent, all headers
\* (X-Request-Id, Retry-After, Content-Type) are set before the status is
\* committed, the status is committed exactly once, and the one body write
\* comes after it; when encoding the body fails, the failure is not
\* propagated and the committed status and the headers stay as they are.
C25_HeadersStatusBodyInOrder ==
    (op.name = "Write" /\ op.arg.kind # "nil" /\ op.ret.kind = "ptr")
    => /\ Cardinality(CallsOf("status")) = 1
       /\ Cardinality(CallsOf("Content-Type")) = 1
       /\ \A h \in HeaderNames : \A i \in CallsOf(h) : \A k \in CallsOf("status") : i < k
       /\ Cardinality(CallsOf("body")) <= 1
       /\ \A i \in CallsOf("body") : i = Len(resp.log) /\ \A k \in CallsOf("status") : k < i
       /\ \A i \in 1..Len(resp.log) : resp.log[i] \in HeaderNames \cup {"status", "body"}
       /\ (CallsOf("body") = {}) <=> (emittedDetails = DetailsUnencodable)
       /\ (emittedDetails = DetailsUnencodable)
            => /\ resp.status = resolveStatus(heap[1])
               /\ resp.ctype = "application/json"
               /\ resp.retry = retryAfterHeader(heap[1])
               /\ ~resp.body.ok

\* a Write whose body could not be encoded: two headers and the status,
\* no body, and Write returned
C25_Witness ==
    /\ op.name = "Write"
    /\ op.ret = Out("ptr", 1)
    /\ heap[1].Details = DetailsUnencodable
    /\ resp.log = <<"Retry-After", "Content-Type", "status">>
    /\ resp.status = StatusInternalServerError

(* --------------- concurrent requests through the middleware ------------ *)
\* the locals of one run of TraceMiddleware's closure: the inbound request,
\* the id, the request handed to next, and what the handler read from it
Locals(r, id, next, seen) == [req |-> r, id |-> id, next |-> next, seen |-> seen]

\* a request arrives; requests may share their parent context
Arrive(p) ==
    /\ pc[p] = "idle"
    /\ \E hd \in {"", "h" \o ToString(p)}, cx \in 1..Len(BaseContexts) :
          loc' = [loc EXCEPT ![p] = Locals(TracedRequest(hd, cx), "", TracedRequest("", 0), "")]
    /\ Goto(p, "header")
    /\ UNCHANGED <<heap, made, op, resp, arg, call, ctxs, mw, phase, presp, payload>>

\* id := r.Header.Get(HeaderTraceID)
ReadHeader(p) ==
    /\ pc[p] = "header"
    /\ loc' = [loc EXCEPT ![p].id = loc[p].req.hdr]
    /\ Goto(p, IF loc[p].req.hdr = "" THEN "generate" ELSE "attach")
    /\ UNCHANGED <<heap, made, op, resp, arg, call, ctxs, mw, phase, presp, payload>>

\* id = newTraceID()
Generate(p) ==
    /\ pc[p] = "generate"
    /\ \E b \in RandomBytes : loc' = [loc EXCEPT ![p].id = newTraceID(b)]
    /\ Goto(p, "attach")
    /\ UNCHANGED <<heap, made, op, resp, arg, call, ctxs, mw, phase, presp, payload>>

\* ctx := WithTraceID(r.Context(), id); r.WithContext(ctx)
Attach(p) ==
    /\ pc[p] = "attach"
    /\ ctxs' = ContextWithTraceID(ctxs, loc[p].req.ctx, loc[p].id).ctxs
    /\ loc' = [loc EXCEPT ![p].next =
                  TracedRequest(loc[p].req.hdr,
                                ContextWithTraceID(ctxs, loc[p].req.ctx, loc[p].id).ctx)]
    /\ Goto(p, "next")
    /\ UNCHANGED <<heap, made, op, resp, arg, call, mw, phase, presp, payload>>

\* next.ServeHTTP: the handler reads TraceIDFromRequest(r)
CallNext(p) ==
    /\ pc[p] = "next"
    /\ loc' = [loc EXCEPT ![p].seen = TraceIDFromRequest(asRequest(ctxs, loc[p].next))]
    /\ Goto(p, "done")
    /\ UNCHANGED <<heap, made, op, resp, arg, call, ctxs, mw, phase, presp, payload>>

InitMw ==
    /\ heap = <<>>
    /\ arg = NilErr
    /\ call = NoCall
    /\ phase = "middleware"
    /\ InitCommon

NextMw ==
    \E p \in Procs :
        \/ Arrive(p)
        \/ ReadHeader(p)
        \/ Generate(p)
        \/ Attach(p)
        \/ CallNext(p)

SpecMw == InitMw /\ [][NextMw]_vars

\* C26: in every interleaving of concurrent requests through
\* TraceMiddleware, the trace id a handler reads from its request is the
\* one derived for that request, no request reads from a context attached
\* for another request, and attaching an id leaves the parent context and
\* the inbound request as they were.
C26_TraceIDIsPerRequest ==
    /\ SubSeq(ctxs, 1, Len(BaseContexts)) = BaseContexts
    /\ \A p \in Procs :
          /\ pc[p] \in {"next", "done"} =>
                /\ loc[p].next.ctx > Len(BaseContexts)
                /\ ctxs[loc[p].next.ctx] = Context(loc[p].req.ctx, loc[p].id)
                /\ loc[p].next.hdr = loc[p].req.hdr
                /\ loc[p].req.ctx \in 1..Len(BaseContexts)
                /\ \A q \in Procs \ {p} :
                      pc[q] \in {"next", "done"} => loc[q].next.ctx # loc[p].next.ctx
          /\ pc[p] = "done" =>
                /\ loc[p].seen = loc[p].id
                /\ loc[p].seen # ""
                /\ loc[p].req.hdr # "" => loc[p].seen = loc[p].req.hdr

\* two requests without header from the same parent context, both served:
\* each handler read its own request's id
C26_Witness ==
    /\ pc[1] = "done" /\ pc[2] = "done"
    /\ loc[1].req = TracedRequest("", 1) /\ loc[2].req = TracedRequest("", 1)
    /\ loc[1].id # loc[2].id
    /\ loc[1].seen = loc[1].id
    /\ loc[2].seen = loc[2].id

(* ------------- C27: With* copies and the details payload ---------------- *)

CopyingWiths == {"WithTraceID", "WithRetryable", "WithStatus", "WithRetryAfter"}

\* C27: when the details of an error e are a map, writing an entry of the
\* details reached through the copy that WithTraceID, WithRetryable,
\* WithStatus or WithRetryAfter returned for e leaves the entries seen
\* through e unchanged
C27_CopyHoldsNoReferenceIntoOriginal ==
    [][(/\ op.name \in CopyingWiths
        /\ op'.name = "SetDetailsEntry"
        /\ heap[op.recv].Details \in MapPayloads)
          => payload'[heap[op.recv].Details] = payload[heap[op.recv].Details]]_vars

(* --------------------- C28: From is idempotent -------------------------- *)

BySignal(f) ==
    f.kind # "nil" /\ ~HasError(f) /\ (HasDeadline(f) \/ HasCanceled(f) \/ NetTimeout(f))

\* C29: the error From returns under the deadline-exceeded, canceled or
\* network-timeout rule has no cause and no details, so unwrapping it
\* reaches nothing; the error of the internal rule has the failure as cause.
C29_SignalRulesDropTheFailure ==
    (op.name = "From" /\ op.arg.kind # "nil" /\ ~HasError(op.arg)) =>
        /\ op.ret = Out("ptr", 2)
        /\ IF BySignal(op.arg)
             THEN /\ heap[2].Cause = NilErr
                  /\ heap[2].Details = 0
                  /\ Preorder(heap, Ptr(2)) = <<Ptr(2)>>
             ELSE heap[2].Cause = op.arg /\ Preorder(heap, Ptr(2))[2] = op.arg

\* a network timeout that wraps another failure has come back as a TIMEOUT
\* without cause
C29_Witness ==
    /\ op.name = "From"
    /\ op.arg = Custom(TRUE, TRUE, TRUE, <<Opaque>>)
    /\ op.ret = Out("ptr", 2)
    /\ heap[2].Code = "TIMEOUT"
    /\ heap[2].Cause = NilErr

(* ------------------- C30: the echo adapter returns nil ------------------ *)

\* C30: echo's Trace calls the next handler once, with the request that
\* carries the trace id in its context, and returns nil whatever the
\* handler returned; echo's Write returns nil once the response is out.
C30_EchoReturnsNil ==
    op.name = "echo" =>
        /\ mw.calls = 1
        /\ mw.seen = mw.id
        /\ ctxValue(ctxs, mw.req.ctx) = mw.id
        /\ mw.ret = NilErr
        /\ mw.wret = NilErr

\* a handler behind echo's Trace has written an error with echo's Write
\* and returned a failure of its own
C30_Witness ==
    /\ op.name = "echo"
    /\ op.arg = Ptr(1)
    /\ arg = Opaque
    /\ resp.status = 404
    /\ mw.calls = 1
    /\ mw.ret = NilErr

====
